---- MODULE Spec2Model ----
(***************************************************************************)
(* Model of the two programs of the edurust repository:                   *)
(*   book/chapter2/guessing_game  - the number-guessing loop              *)
(*   book/chapter4/ownership      - swap_by_ref / swap_by_val and main    *)
(* A run executes one of the programs.  The swap functions are also       *)
(* driven with arbitrary i32 arguments by a caller that applies them in   *)
(* any order ("swap_calls").                                              *)
(***************************************************************************)
EXTENDS Integers, Sequences, FiniteSets, TLC

VARIABLES
    prog,           \* which program runs
    pc,             \* position in that program
    stdout,         \* lines written by println!
    stderr,         \* panic messages
    secret_number,  \* guessing_game: let secret_number: u32 (0 = not drawn)
    guess,          \* guessing_game: the String buffer `guess`
    guess_num,      \* guessing_game: the shadowing `guess: u32`
    rd,             \* guessing_game: outcome of the last read_line
    nread,          \* guessing_game: number of read_line calls so far
    a, b,           \* ownership: the caller's two i32 slots
    ret,            \* ownership: tuple returned by swap_by_val, not yet bound
    trail,          \* ownership: the pair (a, b) after each completed swap
    ops             \* ownership: the swap form of each completed swap

vars == <<prog, pc, stdout, stderr, secret_number, guess, guess_num, rd,
          nread, a, b, ret, trail, ops>>

guessVars == <<secret_number, guess, guess_num, rd, nread>>
swapVars  == <<a, b, ret, trail, ops>>

\* ------------------------------------------------------------------ bounds
MaxIter  == 2       \* read_line calls per run
MaxLen   == 2       \* length of the enumerated line bodies
MaxCalls == 4       \* swap calls made by the arbitrary caller

\* ----------------------------------------------------------- output lines
Line(text, args) == [text |-> text, args |-> args]

MsgGreeting == Line("Guessing the number!", <<>>)
MsgPrompt   == Line("Please input your guess:", <<>>)
MsgRetry    == Line("Please input number next time!", <<>>)
MsgSmall    == Line("Too small guess!", <<>>)
MsgBig      == Line("Too big guess!", <<>>)
MsgWon      == Line("You won!", <<>>)
MsgReadFail == Line("Failed to read user input.", <<>>)

\* ------------------------------------------------------------ u32 values
\* A u32 is kept as two 16-bit limbs so that the full width 0 .. 2^32-1 is
\* represented exactly.
Base == 65536

U32(n) == [hi |-> n \div Base, lo |-> n % Base]

Zero == U32(0)

\* u32::checked_mul(10) followed by checked_add(d): the new value, or
\* overflow when it does not fit in 32 bits.
MulAdd10(v, d) ==
    LET lo2 == v.lo * 10 + d
        hi2 == v.hi * 10 + (lo2 \div Base)
    IN  [overflow |-> hi2 >= Base,
         val      |-> [hi |-> hi2 % Base, lo |-> lo2 % Base]]

\* Ord::cmp on u32
Cmp_LowLimbOnly(x, y) ==
    IF x.lo < y.lo THEN "Less"
    ELSE IF x.lo > y.lo THEN "Greater"
    ELSE "Equal"

Cmp(x, y) ==
    IF x.hi < y.hi THEN "Less"
    ELSE IF x.hi > y.hi THEN "Greater"
    ELSE IF x.lo < y.lo THEN "Less"
    ELSE IF x.lo > y.lo THEN "Greater"
    ELSE "Equal"

\* ------------------------------------------------------------- characters
Digits == <<"0", "1", "2", "3", "4", "5", "6", "7", "8", "9">>

DigitChars == {Digits[i] : i \in 1..10}

DigitVal(c) == (CHOOSE i \in 1..10 : Digits[i] = c) - 1

\* char::is_whitespace, restricted to the characters the input uses
Whitespace == {" ", "\t", "\n", "\r"}

RECURSIVE TrimStart(_)
TrimStart(s) ==
    IF s # <<>> /\ Head(s) \in Whitespace THEN TrimStart(Tail(s)) ELSE s

RECURSIVE TrimEnd(_)
TrimEnd(s) ==
    IF s # <<>> /\ s[Len(s)] \in Whitespace
    THEN TrimEnd(SubSeq(s, 1, Len(s) - 1))
    ELSE s

\* str::trim
Trim(s) == TrimEnd(TrimStart(s))

\* ------------------------------------------------------- str::parse::<u32>
ParseOk(v)  == [ok |-> TRUE,  val |-> v,    err |-> "none"]
ParseErr(e) == [ok |-> FALSE, val |-> Zero, err |-> e]

RECURSIVE ParseDigits(_, _)
ParseDigits(s, acc) ==
    IF s = <<>> THEN ParseOk(acc)
    ELSE IF Head(s) \notin DigitChars THEN ParseErr("InvalidDigit")
    ELSE LET r == MulAdd10(acc, DigitVal(Head(s)))
         IN  IF r.overflow THEN ParseErr("PosOverflow")
             ELSE ParseDigits(Tail(s), r.val)

\* u32::from_str: empty text is an error; a lone sign is an error; one
\* leading "+" is accepted; "-" is not a digit of an unsigned type.
ParseU32(s) ==
    IF s = <<>> THEN ParseErr("Empty")
    ELSE IF Len(s) = 1 /\ Head(s) \in {"+", "-"} THEN ParseErr("InvalidDigit")
    ELSE IF Head(s) = "+" THEN ParseDigits(Tail(s), Zero)
    ELSE ParseDigits(s, Zero)

\* ------------------------------------------------------------ input lines
Alphabet == {" ", "+", "1", "a"}

ShortBodies == UNION {[1..n -> Alphabet] : n \in 0..MaxLen}

LongBodies ==
    { <<"4", "2">>, <<"5", "0">>, <<"1", "0", "0">>, <<"1", "0", "1">>,
      <<"0", "0", "7">>, <<"-", "1">>, <<"-">>, <<"\t", "7", "\r">>,
      <<"6", "5", "5", "3", "7">>,
      <<"9", "9", "9", "9", "9", "9", "9", "9", "9">>,
      <<"1", "0", "0", "0", "0", "0", "0", "0", "0", "0">>,
      <<"4", "2", "9", "4", "9", "6", "7", "2", "9", "5">>,
      <<"4", "2", "9", "4", "9", "6", "7", "2", "9", "6">>,
      <<"0", "4", "2", "9", "4", "9", "6", "7", "2", "9", "5">>,
      <<"9", "9", "9", "9", "9", "9", "9", "9", "9", "9", "9">> }

\* what read_line can put in the buffer: a line with its newline, or the
\* last line of a stream that does not end with a newline
InputLines ==
    {body \o <<"\n">> : body \in ShortBodies \cup LongBodies}
        \cup { <<"4", "2">>, <<"a">> }

\* ---------------------------------------------------------- guessing_game
SecretRange_FromZero == 0..100

\* gen_range(1..=100)
SecretRange == 1..100

GuessInit ==
    /\ prog = "guessing_game"
    /\ pc = "start"
    /\ stdout = <<>>
    /\ stderr = <<>>
    /\ secret_number = 0
    /\ guess = <<>>
    /\ guess_num = Zero
    /\ rd = "none"
    /\ nread = 0
    /\ a = 0
    /\ b = 0
    /\ ret = <<>>
    /\ trail = <<>>
    /\ ops = <<>>

\* println!("Guessing the number!"); let secret_number = gen_range(1..=100)
DrawSecret ==
    /\ prog = "guessing_game"
    /\ pc = "start"
    /\ stdout' = Append(stdout, MsgGreeting)
    /\ \E s \in SecretRange : secret_number' = s
    /\ pc' = "prompt"
    /\ UNCHANGED <<prog, stderr, guess, guess_num, rd, nread>>
    /\ UNCHANGED swapVars

\* top of the loop body: println!("Please input your guess:")
Prompt ==
    /\ prog = "guessing_game"
    /\ pc = "prompt"
    /\ stdout' = Append(stdout, MsgPrompt)
    /\ pc' = "read"
    /\ UNCHANGED <<prog, stderr>>
    /\ UNCHANGED guessVars
    /\ UNCHANGED swapVars

\* let mut guess = String::new(); read_line(&mut guess) returns Ok(n), n > 0
ReadLineOk ==
    /\ prog = "guessing_game"
    /\ pc = "read"
    /\ nread < MaxIter
    /\ \E line \in InputLines : guess' = line
    /\ guess_num' = Zero
    /\ rd' = "line"
    /\ nread' = nread + 1
    /\ pc' = "parse"
    /\ UNCHANGED <<prog, stdout, stderr, secret_number>>
    /\ UNCHANGED swapVars

\* read_line at end of input returns Ok(0) and leaves the buffer empty;
\* expect() unwraps the Ok
ReadLineEof ==
    /\ prog = "guessing_game"
    /\ pc = "read"
    /\ nread < MaxIter
    /\ guess' = <<>>
    /\ guess_num' = Zero
    /\ rd' = "eof"
    /\ nread' = nread + 1
    /\ pc' = "parse"
    /\ UNCHANGED <<prog, stdout, stderr, secret_number>>
    /\ UNCHANGED swapVars

\* read_line returns Err (I/O error, invalid UTF-8); expect() panics
ReadLineErr ==
    /\ prog = "guessing_game"
    /\ pc = "read"
    /\ nread < MaxIter
    /\ guess' = <<>>
    /\ guess_num' = Zero
    /\ rd' = "err"
    /\ nread' = nread + 1
    /\ stderr' = Append(stderr, MsgReadFail)
    /\ pc' = "panicked"
    /\ UNCHANGED <<prog, stdout, secret_number>>
    /\ UNCHANGED swapVars

\* let guess: u32 = match guess.trim().parse() { Ok(num) => num,
\*                    Err(_) => { println!(...); continue; } }
ParseGuess_ErrAsZero ==
    /\ prog = "guessing_game"
    /\ pc = "parse"
    /\ guess_num' = ParseU32(Trim(guess)).val
    /\ pc' = "cmp"
    /\ UNCHANGED <<prog, stdout, stderr, secret_number, guess, rd, nread>>
    /\ UNCHANGED swapVars

ParseGuess ==
    /\ prog = "guessing_game"
    /\ pc = "parse"
    /\ LET r == ParseU32(Trim(guess))
       IN  IF r.ok
           THEN /\ guess_num' = r.val
                /\ pc' = "cmp"
                /\ stdout' = stdout
           ELSE /\ guess_num' = guess_num
                /\ pc' = "prompt"
                /\ stdout' = Append(stdout, MsgRetry)
    /\ UNCHANGED <<prog, stderr, secret_number, guess, rd, nread>>
    /\ UNCHANGED swapVars

\* match guess.cmp(&secret_number) { Less => .., Greater => .., Equal => break }
Compare_BreakOnGreater ==
    /\ prog = "guessing_game"
    /\ pc = "cmp"
    /\ LET o == Cmp(guess_num, U32(secret_number))
       IN  /\ stdout' = Append(stdout, CASE o = "Less"    -> MsgSmall
                                         [] o = "Greater" -> MsgBig
                                         [] o = "Equal"   -> MsgWon)
           /\ pc' = IF o = "Less" THEN "prompt" ELSE "terminated"
    /\ UNCHANGED <<prog, stderr>>
    /\ UNCHANGED guessVars
    /\ UNCHANGED swapVars

Compare_NoBreak ==
    /\ prog = "guessing_game"
    /\ pc = "cmp"
    /\ LET o == Cmp(guess_num, U32(secret_number))
       IN  /\ stdout' = Append(stdout, CASE o = "Less"    -> MsgSmall
                                         [] o = "Greater" -> MsgBig
                                         [] o = "Equal"   -> MsgWon)
           /\ pc' = "prompt"
    /\ UNCHANGED <<prog, stderr>>
    /\ UNCHANGED guessVars
    /\ UNCHANGED swapVars

Compare ==
    /\ prog = "guessing_game"
    /\ pc = "cmp"
    /\ LET o == Cmp(guess_num, U32(secret_number))
       IN  /\ stdout' = Append(stdout, CASE o = "Less"    -> MsgSmall
                                         [] o = "Greater" -> MsgBig
                                         [] o = "Equal"   -> MsgWon)
           /\ pc' = IF o = "Equal" THEN "terminated" ELSE "prompt"
    /\ UNCHANGED <<prog, stderr>>
    /\ UNCHANGED guessVars
    /\ UNCHANGED swapVars

GuessNext ==
    \/ DrawSecret
    \/ Prompt
    \/ ReadLineOk
    \/ ReadLineEof
    \/ ReadLineErr
    \/ ParseGuess
    \/ Compare

\* -------------------------------------------------------------- ownership
MaxI32 == 2147483647
MinI32 == -MaxI32 - 1

\* i32 arguments the arbitrary caller passes
SwapInts == {MinI32, -1, 0, 8, 10, MaxI32}

MsgHello == Line("Hello, world!", <<>>)

\* println!("a = {}, b = {}", a, b)
MsgPair(x, y) == Line("a = {}, b = {}", <<x, y>>)

\* fn swap_by_ref(a: &mut i32, b: &mut i32): mem is the caller's memory,
\* pa and pb the two slots the references point to
swap_by_ref_NoTmp(mem, pa, pb) ==
    LET m1 == [mem EXCEPT ![pa] = mem[pb]]
    IN  [m1 EXCEPT ![pb] = m1[pa]]

swap_by_ref(mem, pa, pb) ==
    LET tmp == mem[pa]
        m1  == [mem EXCEPT ![pa] = mem[pb]]
    IN  [m1 EXCEPT ![pb] = tmp]

\* fn swap_by_val(mut a: i32, mut b: i32) -> (i32, i32): x and y are the
\* callee's own copies
swap_by_val_SecondTwice(x, y) == <<y, y>>

swap_by_val(x, y) ==
    LET a1 == y
        b1 == x
    IN  <<a1, b1>>

\* the process started as the ownership binary
MainInit ==
    /\ prog = "ownership"
    /\ pc = "m17"
    /\ stdout = <<>>
    /\ stderr = <<>>
    /\ secret_number = 0
    /\ guess = <<>>
    /\ guess_num = Zero
    /\ rd = "none"
    /\ nread = 0
    /\ a = 0
    /\ b = 0
    /\ ret = <<>>
    /\ trail = <<>>
    /\ ops = <<>>

\* a caller holding two arbitrary i32 slots
CallerInit ==
    /\ prog = "swap_calls"
    /\ pc = "idle"
    /\ stdout = <<>>
    /\ stderr = <<>>
    /\ secret_number = 0
    /\ guess = <<>>
    /\ guess_num = Zero
    /\ rd = "none"
    /\ nread = 0
    /\ a \in SwapInts
    /\ b \in SwapInts
    /\ ret = <<>>
    /\ trail = << <<a, b>> >>
    /\ ops = <<>>

\* println!("Hello, world!")
MainHello ==
    /\ prog = "ownership"
    /\ pc = "m17"
    /\ stdout' = Append(stdout, MsgHello)
    /\ pc' = "m18"
    /\ UNCHANGED <<prog, stderr>>
    /\ UNCHANGED guessVars
    /\ UNCHANGED swapVars

\* let mut a: i32 = 10; let mut b: i32 = 8; println!(...)
MainLet ==
    /\ prog = "ownership"
    /\ pc = "m18"
    /\ a' = 10
    /\ b' = 8
    /\ trail' = << <<10, 8>> >>
    /\ stdout' = Append(stdout, MsgPair(10, 8))
    /\ pc' = "m21"
    /\ UNCHANGED <<prog, stderr, ret, ops>>
    /\ UNCHANGED guessVars

\* swap_by_ref(&mut a, &mut b)
CallSwapByRef ==
    /\ \/ prog = "ownership" /\ pc = "m21" /\ pc' = "m22"
       \/ prog = "swap_calls" /\ pc = "idle" /\ Len(ops) < MaxCalls /\ pc' = "idle"
    /\ LET m == swap_by_ref([a |-> a, b |-> b], "a", "b")
       IN  /\ a' = m.a
           /\ b' = m.b
           /\ trail' = Append(trail, <<m.a, m.b>>)
    /\ ops' = Append(ops, "ref")
    /\ UNCHANGED <<prog, stdout, stderr, ret>>
    /\ UNCHANGED guessVars

\* the right-hand side of (a, b) = swap_by_val(a, b): the call returns a
\* tuple; the caller's a and b were passed by copy
CallSwapByVal_WritesCaller ==
    /\ \/ prog = "ownership" /\ pc = "m23" /\ pc' = "m23_bind"
       \/ prog = "swap_calls" /\ pc = "idle" /\ Len(ops) < MaxCalls /\ pc' = "bind"
    /\ ret' = swap_by_val(a, b)
    /\ a' = b
    /\ b' = a
    /\ UNCHANGED <<prog, stdout, stderr, trail, ops>>
    /\ UNCHANGED guessVars

CallSwapByVal ==
    /\ \/ prog = "ownership" /\ pc = "m23" /\ pc' = "m23_bind"
       \/ prog = "swap_calls" /\ pc = "idle" /\ Len(ops) < MaxCalls /\ pc' = "bind"
    /\ ret' = swap_by_val(a, b)
    /\ UNCHANGED <<prog, stdout, stderr, a, b, trail, ops>>
    /\ UNCHANGED guessVars

\* the destructuring assignment (a, b) = <returned tuple>
Rebind ==
    /\ \/ prog = "ownership" /\ pc = "m23_bind" /\ pc' = "m24"
       \/ prog = "swap_calls" /\ pc = "bind" /\ pc' = "idle"
    /\ a' = ret[1]
    /\ b' = ret[2]
    /\ ret' = <<>>
    /\ trail' = Append(trail, ret)
    /\ ops' = Append(ops, "val")
    /\ UNCHANGED <<prog, stdout, stderr>>
    /\ UNCHANGED guessVars

\* println!("a = {}, b = {}", a, b) after each swap; main returns after
\* the last one
MainPrint ==
    /\ prog = "ownership"
    /\ \/ pc = "m22" /\ pc' = "m23"
       \/ pc = "m24" /\ pc' = "exit"
    /\ stdout' = Append(stdout, MsgPair(a, b))
    /\ UNCHANGED <<prog, stderr>>
    /\ UNCHANGED guessVars
    /\ UNCHANGED swapVars

SwapNext ==
    \/ MainHello
    \/ MainLet
    \/ CallSwapByRef
    \/ CallSwapByVal
    \/ Rebind
    \/ MainPrint

\* ------------------------------------------- decimal text, read as a number
\* These read a digit string as the natural number it denotes, without any
\* machine width; values of 10^9 and above are all reported as 10^9.
IsDecimal(s) == s # <<>> /\ \A i \in 1..Len(s) : s[i] \in DigitChars

RECURSIVE StripZeros(_)
StripZeros(s) ==
    IF Len(s) > 1 /\ Head(s) = "0" THEN StripZeros(Tail(s)) ELSE s

RECURSIVE PlainValue(_)
PlainValue(s) ==
    IF s = <<>> THEN 0
    ELSE 10 * PlainValue(SubSeq(s, 1, Len(s) - 1)) + DigitVal(s[Len(s)])

DecimalValue(s) ==
    LET t == StripZeros(s)
    IN  IF Len(t) > 9 THEN 1000 * 1000 * 1000 ELSE PlainValue(t)

U32MaxText == <<"4", "2", "9", "4", "9", "6", "7", "2", "9", "5">>

RECURSIVE LexLeq(_, _)
LexLeq(s, t) ==
    IF s = <<>> THEN TRUE
    ELSE IF DigitVal(Head(s)) < DigitVal(Head(t)) THEN TRUE
    ELSE IF DigitVal(Head(s)) > DigitVal(Head(t)) THEN FALSE
    ELSE LexLeq(Tail(s), Tail(t))

\* the number denoted by s is at most 2^32 - 1
FitsU32(s) ==
    LET t == StripZeros(s)
    IN  \/ Len(t) < Len(U32MaxText)
        \/ Len(t) = Len(U32MaxText) /\ LexLeq(t, U32MaxText)

\* the text without one leading "+"
Unsigned(s) == IF s # <<>> /\ Head(s) = "+" THEN Tail(s) ELSE s

\* the states of the loop the specification calls awaiting_input
Awaiting == {"prompt", "read", "parse", "cmp"}

IsLess(v, n) == v.hi = 0 /\ v.lo < n

Reverse(p) == <<p[2], p[1]>>

\* ------------------------------------------------------------------ claims

\* C1: exhaustion or failure of standard input is fatal: whenever read_line
\* could read no further line (end of input) or failed, the program has
\* reported a read failure and stopped; it never goes on with the loop.
C1_InputExhaustionIsFatal ==
    rd \in {"eof", "err"} => (pc = "panicked" /\ stderr = <<MsgReadFail>>)

\* C2: the loop leaves awaiting_input for terminated only from the comparison
\* of an iteration whose line, trimmed, parses to a u32 equal to the secret
\* (its text is a decimal numeral, with an optional "+", denoting the
\* secret); a parse failure and an unequal guess stay in awaiting_input.
C2_TerminatesOnlyOnEqual ==
    [][ /\ (pc \in Awaiting /\ pc' = "terminated") =>
              /\ pc = "cmp"
              /\ ParseU32(Trim(guess)).ok
              /\ ParseU32(Trim(guess)).val = U32(secret_number)
              /\ IsDecimal(Unsigned(Trim(guess)))
              /\ DecimalValue(Unsigned(Trim(guess))) = secret_number
        /\ (pc = "parse" /\ ~ParseU32(Trim(guess)).ok) => pc' \in Awaiting
        /\ (pc = "cmp" /\ guess_num # U32(secret_number)) => pc' \in Awaiting
      ]_vars

C2_Witness ==
    /\ pc = "terminated"
    /\ guess = <<"\t", "7", "\r", "\n">>
    /\ secret_number = 7
    /\ nread = 2
    /\ stdout[3] = MsgRetry

\* C3: when the parsed guess equals the secret the loop prints the win
\* message and terminates in that very iteration; once terminated nothing
\* more is printed or read, and the win message is the last line written.
C3_WinTerminates ==
    /\ [][ /\ (pc = "cmp" /\ guess_num = U32(secret_number)) =>
                 (stdout' = Append(stdout, MsgWon) /\ pc' = "terminated")
           /\ pc = "terminated" =>
                 (pc' = pc /\ stdout' = stdout /\ nread' = nread)
         ]_vars
    /\ [](pc = "terminated" =>
             /\ stdout[Len(stdout)] = MsgWon
             /\ stdout[Len(stdout) - 1] = MsgPrompt
             /\ Len(stdout) = 1 + 2 * nread
             /\ \A i \in 1..(Len(stdout) - 1) : stdout[i] # MsgWon)

C3_Witness ==
    /\ pc = "terminated"
    /\ nread = 2
    /\ stdout[3] = MsgBig
    /\ stdout[5] = MsgWon
    /\ secret_number = 42

\* C4 as stated: for every unsigned integer g other than the secret, a line
\* holding the decimal text of g reaches the comparison and the iteration
\* prints exactly one comparison message, "too small" for g < s and
\* "too big" for g > s, and continues with the next iteration.
C4_AnyUnsignedInteger ==
    [][ /\ ( /\ pc = "parse"
             /\ IsDecimal(Trim(guess))
             /\ DecimalValue(Trim(guess)) # secret_number ) =>
               /\ pc' = "cmp"
               /\ stdout' = stdout
               /\ guess_num' # U32(secret_number)
               /\ IsLess(guess_num', secret_number)
                     <=> (DecimalValue(Trim(guess)) < secret_number)
        /\ (pc = "cmp" /\ guess_num # U32(secret_number)) =>
               /\ stdout' = Append(stdout,
                      IF IsLess(guess_num, secret_number)
                      THEN MsgSmall ELSE MsgBig)
               /\ pc' = "prompt"
      ]_vars

\* C4 amended: the same for every unsigned integer g that fits in 32 bits
\* (0 <= g <= 4294967295).
C4_AnyU32 ==
    [][ /\ ( /\ pc = "parse"
             /\ IsDecimal(Trim(guess))
             /\ FitsU32(Trim(guess))
             /\ DecimalValue(Trim(guess)) # secret_number ) =>
               /\ pc' = "cmp"
               /\ stdout' = stdout
               /\ guess_num' # U32(secret_number)
               /\ IsLess(guess_num', secret_number)
                     <=> (DecimalValue(Trim(guess)) < secret_number)
        /\ (pc = "cmp" /\ guess_num # U32(secret_number)) =>
               /\ stdout' = Append(stdout,
                      IF IsLess(guess_num, secret_number)
                      THEN MsgSmall ELSE MsgBig)
               /\ pc' = "prompt"
      ]_vars

C4_Witness ==
    /\ pc = "prompt"
    /\ nread = 2
    /\ stdout[3] = MsgSmall
    /\ stdout[5] = MsgBig
    /\ guess = U32MaxText \o <<"\n">>

\* C5: a line that does not parse as a u32 after trimming (in particular
\* every line whose trimmed text is not a decimal numeral) is recovered
\* locally: the re-prompt message is printed, no comparison message is, the
\* secret and all other state stay as they were, and the loop continues.
C5_ParseFailureRecovered ==
    [][ ( /\ pc = "parse"
          /\ \/ ~ParseU32(Trim(guess)).ok
             \/ ~IsDecimal(Unsigned(Trim(guess))) ) =>
            /\ stdout' = Append(stdout, MsgRetry)
            /\ pc' = "prompt"
            /\ UNCHANGED <<prog, stderr, secret_number, guess, guess_num,
                           rd, nread>>
      ]_vars

C5_Witness ==
    /\ pc = "prompt"
    /\ nread = 2
    /\ stdout[3] = MsgRetry
    /\ stdout[5] = MsgRetry
    /\ guess = <<"-", "1", "\n">>

\* C6: the secret is drawn once, at program start, from 1..100; in every
\* state of the guess loop it lies in 1..100 and no later step changes it.
C6_SecretFixedInRange ==
    /\ []((prog = "guessing_game" /\ pc # "start") =>
              secret_number \in 1..100)
    /\ [][ /\ pc # "start" => secret_number' = secret_number
           /\ secret_number' # secret_number => stdout = <<>>
         ]_vars

C6_Witness ==
    /\ pc = "terminated"
    /\ secret_number = 100
    /\ nread = 2
    /\ stdout[3] = MsgSmall

\* C7: for every i32 pair (a, b), swap_by_ref leaves the two slots holding
\* (b, a) and swap_by_val returns (b, a): every completed swap of either
\* form reverses the pair, and the two forms agree on the current pair.
C7_BothFormsReverse ==
    prog \in {"ownership", "swap_calls"} =>
        /\ \A i \in 2..Len(trail) : trail[i] = Reverse(trail[i - 1])
        /\ ret # <<>> => ret = <<b, a>>
        /\ LET m == swap_by_ref([a |-> a, b |-> b], "a", "b")
           IN  /\ <<m.a, m.b>> = <<b, a>>
               /\ swap_by_val(a, b) = <<b, a>>

C7_Witness ==
    /\ prog = "swap_calls"
    /\ ops = <<"ref", "val">>
    /\ trail[1] = <<MinI32, MaxI32>>
    /\ <<a, b>> = <<MinI32, MaxI32>>

\* C8: applying the same swap form twice gives back the original pair.
C8_SwapTwiceIsIdentity ==
    \A i \in 1..(Len(ops) - 1) :
        ops[i] = ops[i + 1] => trail[i + 2] = trail[i]

C8_Witness ==
    /\ prog = "swap_calls"
    /\ ops = <<"ref", "ref", "val", "val">>
    /\ trail[1] = <<10, -1>>
    /\ trail[2] = <<-1, 10>>
    /\ <<a, b>> = <<10, -1>>

\* C9: swap_by_val does not touch the caller's variables: while its result
\* is not yet bound, a and b hold the values from before the call and the
\* result is the reversed pair; swap_by_ref changes the caller's a and b.
C9_ValueFormHasNoSideEffect ==
    /\ [](ret # <<>> =>
             /\ <<a, b>> = trail[Len(trail)]
             /\ ret = Reverse(trail[Len(trail)]))
    /\ [][ /\ (ret = <<>> /\ ret' # <<>>) => (a' = a /\ b' = b)
           /\ ops' = Append(ops, "ref") => <<a', b'>> = <<b, a>>
         ]_vars

C9_Witness ==
    /\ prog = "swap_calls"
    /\ ops = <<"ref">>
    /\ trail[1] = <<8, MaxI32>>
    /\ <<a, b>> = <<MaxI32, 8>>
    /\ ret = <<8, MaxI32>>

\* C10 as stated: the demo writes four lines, each showing the pair, before
\* and after each of the two swaps.
C10_FourPairLines ==
    (prog = "ownership" /\ pc = "exit") =>
        /\ Len(stdout) = 4
        /\ \A i \in 1..4 : stdout[i].text = MsgPair(0, 0).text
        /\ stdout[Len(stdout) - 1] = MsgPair(8, 10)
        /\ stdout[Len(stdout)] = MsgPair(10, 8)

\* C10 amended: the demo reads no input and writes four lines, a greeting
\* and three lines showing the pair: (10, 8) at the start, (8, 10) after the
\* reference swap, (10, 8) after the value swap applied to (8, 10).
C10_GreetingAndThreePairLines ==
    prog = "ownership" =>
        /\ nread = 0 /\ rd = "none"
        /\ pc \in {"m22", "m23", "m23_bind"} => <<a, b>> = <<8, 10>>
        /\ pc = "m23_bind" => ret = <<10, 8>>
        /\ pc \in {"m24", "exit"} => <<a, b>> = <<10, 8>>
        /\ pc = "exit" =>
              stdout = <<MsgHello, MsgPair(10, 8), MsgPair(8, 10),
                         MsgPair(10, 8)>>

C10_Witness ==
    /\ prog = "ownership"
    /\ pc = "exit"
    /\ Len(stdout) = 4
    /\ ops = <<"ref", "val">>

Init == GuessInit \/ MainInit \/ CallerInit

Next == GuessNext \/ SwapNext

Spec == Init /\ [][Next]_vars
====
